---- MODULE Spec2Model ----
(***************************************************************************)
(* A model of src/main.rs of sheumais/ttcdata: the Lua price-table         *)
(* converter (literal scanner, timestamp extractor, trailing-comma         *)
(* removal, tree flattener) and the per-region driver process_server.      *)
(*                                                                         *)
(* Text is a sequence of characters, each a string naming one character.   *)
(* "U+00E9" (e with acute accent) stands for any character whose UTF-8     *)
(* encoding is two bytes long; every other character of the scanner's      *)
(* texts is one byte long.                                                 *)
(* Indices are 0-based as in the source; At(s, i) reads s[i].              *)
(***************************************************************************)
EXTENDS Integers, Sequences, FiniteSets, TLC

VARIABLES
    text,          \* extract_price_table: its argument
    scan_out,      \* extract_price_table: Pending, or its outcome
    comma_text,    \* remove_trailing_commas_recursive: its argument
    comma_once,    \* ... Pending, or its result
    comma_twice,   \* ... Pending, or its result on comma_once's text
    block,         \* extract_timestamp_from_block: its argument
    ts_out,        \* extract_timestamp_from_block: Pending, or its outcome
    tree,          \* parse_ttc_lua: parsed["Data"], the value line 231 passes
    timestamp,     \* parse_ttc_lua: timestamp (line 222)
    trav_pc,       \* traverse_value: "idle", "call", "run", "done" or "panic"
    stack,         \* traverse_value: its active calls, the outermost first
    path,          \* traverse_value: the path stack (line 230)
    results,       \* traverse_value: the records pushed so far (line 229)
    visited,       \* history: the full key path of each record's object
    parse_out,     \* parse_ttc_lua: Pending, or its outcome
    run,           \* main: 1 while "NA" is processed, 2 for "EU", 3 after both
    pc,            \* process_server: the step to take next
    exit,          \* the process: "running", or how it ended
    archive,       \* the ZIP archive downloaded for the region at hand
    fs,            \* the working files that exist (ZIP and extracted Lua)
    lookup_map,    \* process_server: lookup_map (line 300)
    log,           \* the warnings printed, each with the run that printed it
    conv,          \* per run, how parse_ttc_lua ended: "none", "ok", "panic"
    outputs        \* per run, the CSV files created or written in that run

scanVars == <<text, scan_out>>
commaVars == <<comma_text, comma_once, comma_twice>>
tsVars == <<block, ts_out>>
travVars == <<tree, timestamp, trav_pc, stack, path, results, visited, parse_out>>
procVars == <<run, pc, exit, archive, fs, lookup_map, log, conv, outputs>>
vars == <<scanVars, commaVars, tsVars, travVars, procVars>>

\* what the actions of one function leave alone
exceptScan == <<commaVars, tsVars, travVars, procVars>>
exceptComma == <<scanVars, tsVars, travVars, procVars>>
exceptTs == <<scanVars, commaVars, travVars, procVars>>
exceptTrav == <<scanVars, commaVars, tsVars, procVars>>

-----------------------------------------------------------------------------
(* Sequences and strings                                                   *)

SeqUpTo(S, n) == UNION {[1..k -> S] : k \in 0..n}

At(s, i) == s[i + 1]

\* s[from..to) with 0-based bounds, as a Rust slice
Slice(s, from, to) == SubSeq(s, from + 1, to)

\* char::len_utf8
len_utf8(c) == IF c = "U+00E9" THEN 2 ELSE 1

RECURSIVE ByteLen(_)
\* str::len of the string holding the characters s
ByteLen(s) == IF s = <<>> THEN 0 ELSE len_utf8(Head(s)) + ByteLen(Tail(s))

\* the byte offset of the character at 0-based character index i
ByteOffset(s, i) == ByteLen(SubSeq(s, 1, i))

\* char::is_whitespace, on the characters of the model
is_whitespace(c) == c \in {" ", "\n", "\t", "\r"}

RECURSIVE trim_start(_)
trim_start(s) ==
    IF s # <<>> /\ is_whitespace(Head(s)) THEN trim_start(Tail(s)) ELSE s

RECURSIVE trim_end(_)
trim_end(s) ==
    IF s # <<>> /\ is_whitespace(s[Len(s)])
    THEN trim_end(SubSeq(s, 1, Len(s) - 1)) ELSE s

\* str::trim
trim(s) == trim_end(trim_start(s))

\* str::find of a pattern: the 0-based CHARACTER index of the first
\* occurrence at or after character index from, or -1.  The byte offset
\* Rust returns is ByteOffset of it.
FindFrom(s, pat, from) ==
    LET hits == {i \in from..(Len(s) - Len(pat)) :
                    SubSeq(s, i + 1, i + Len(pat)) = pat}
    IN  IF hits = {} THEN -1 ELSE CHOOSE i \in hits : \A j \in hits : i <= j

-----------------------------------------------------------------------------
(* extract_price_table, main.rs 74-121                                     *)

\* the literal "self.PriceTable" of line 76
PricePrefix ==
    <<"s", "e", "l", "f", ".", "P", "r", "i", "c", "e", "T", "a", "b", "l", "e">>

RECURSIVE StripFrom(_, _)
\* Regex "--.*" replaced by "": every run from "--" to the end of its line
\* is removed, the line feed stays.  in_comment: inside such a run.
StripFrom(s, in_comment) ==
    IF s = <<>> THEN <<>>
    ELSE IF in_comment
         THEN IF Head(s) = "\n" THEN <<"\n">> \o StripFrom(Tail(s), FALSE)
              ELSE StripFrom(Tail(s), TRUE)
         ELSE IF Len(s) >= 2 /\ s[1] = "-" /\ s[2] = "-"
              THEN StripFrom(Tail(Tail(s)), TRUE)
              ELSE <<Head(s)>> \o StripFrom(Tail(s), FALSE)

\* line 75
no_comments_of(t) == StripFrom(t, FALSE)

\* the value of in_string: "none" is None, any other value the open quote
None == "none"

RECURSIVE ScanLoop(_, _, _, _, _, _)
\* The while loop of lines 85-112.  Returns [start, end], -1 for None.
ScanLoop(chars, idx, depth, in_string, escaped, start) ==
    IF ~(idx < Len(chars)) THEN [start |-> start, end |-> -1]
    ELSE LET c == At(chars, idx) IN
         IF in_string # None
         THEN IF escaped
              THEN ScanLoop(chars, idx + 1, depth, in_string, FALSE, start)
              ELSE IF c = "\\"
              THEN ScanLoop(chars, idx + 1, depth, in_string, TRUE, start)
              ELSE IF c = in_string
              THEN ScanLoop(chars, idx + 1, depth, None, escaped, start)
              ELSE ScanLoop(chars, idx + 1, depth, in_string, escaped, start)
         ELSE IF c = "'" \/ c = "\""
              THEN ScanLoop(chars, idx + 1, depth, c, escaped, start)
              ELSE IF c = "{"
              THEN ScanLoop(chars, idx + 1, depth + 1, in_string, escaped,
                            IF depth = 0 THEN idx + 1 ELSE start)
              ELSE IF c = "}"
              THEN IF depth - 1 = 0
                   THEN [start |-> start, end |-> idx]
                   ELSE ScanLoop(chars, idx + 1, depth - 1, in_string,
                                 escaped, start)
              ELSE ScanLoop(chars, idx + 1, depth, in_string, escaped, start)

\* the outcome of a call: not made yet, a panic, or a returned value
Pending == [st |-> "pending", val |-> <<>>]
Panic == [st |-> "panic", val |-> <<>>]
Returned(v) == [st |-> "ok", val |-> v]

\* lines 78: idx = pos + open_brace_pos, both BYTE offsets found by str::find
FirstIdx(no_comments, brace) == ByteOffset(no_comments, brace)

\* lines 74-121.  pos and brace are the character positions str::find
\* locates; line 78 turns them into a byte offset and line 86 uses that
\* offset as an index into the Vec<char>.
extract_price_table(t) ==
    LET no_comments == no_comments_of(t)
        pos == FindFrom(no_comments, PricePrefix, 0)
        brace == IF pos < 0 THEN -1 ELSE FindFrom(no_comments, <<"{">>, pos)
    IN  IF pos < 0 \/ brace < 0 THEN Panic
        ELSE LET r == ScanLoop(no_comments, FirstIdx(no_comments, brace),
                               0, None, FALSE, -1)
             IN  IF r.start >= 0 /\ r.end >= 0
                 THEN Returned(trim(Slice(no_comments, r.start, r.end)))
                 ELSE Panic

-----------------------------------------------------------------------------
(* Inputs of extract_price_table                                           *)

MaxAtoms == 6

\* An atom is a character, or "P" for the whole prefix.
Expand1(a) == IF a = "P" THEN PricePrefix ELSE <<a>>

RECURSIVE Expand(_)
Expand(atoms) ==
    IF atoms = <<>> THEN <<>> ELSE Expand1(Head(atoms)) \o Expand(Tail(atoms))

ScanAtoms1 == {"P", "{", "}", "\"", "\\", "U+00E9"}
ScanAtoms2 == {"P", "{", "}", "-", "\n", " "}
ScanAtoms3 == {"P", "{", "}", "\"", "'", "x"}

ScanInputs ==
    {Expand(a) : a \in SeqUpTo(ScanAtoms1, MaxAtoms)
                       \cup SeqUpTo(ScanAtoms2, MaxAtoms)
                       \cup SeqUpTo(ScanAtoms3, MaxAtoms)}

\* the variables of a function the specification at hand does not call
ScanIdle == text = <<>> /\ scan_out = Pending
CommaIdle == comma_text = <<>> /\ comma_once = Pending /\ comma_twice = Pending
TsIdle == block = <<>> /\ ts_out = Pending
TravIdle ==
    /\ tree = [t |-> "null", e |-> <<>>]
    /\ timestamp = <<"None">>
    /\ trav_pc = "idle"
    /\ stack = <<>> /\ path = <<>> /\ results = <<>> /\ visited = <<>>
    /\ parse_out = Pending
\* a member of the ZIP archive: missing, or there with its text
Absent == [st |-> "absent", content |-> <<>>]
Member(c) == [st |-> "present", content |-> c]

ProcIdle ==
    /\ run = 1 /\ pc = "idle" /\ exit = "running"
    /\ archive = [lua |-> Absent, lookup |-> Absent]
    /\ fs = {} /\ lookup_map = {} /\ log = {}
    /\ conv = [r \in 1..2 |-> "none"]
    /\ outputs = [r \in 1..2 |-> {}]

ScanInit ==
    /\ text \in ScanInputs
    /\ scan_out = Pending
    /\ CommaIdle /\ TsIdle /\ TravIdle /\ ProcIdle

\* one call of extract_price_table (line 221)
ExtractPriceTable ==
    /\ scan_out = Pending
    /\ scan_out' = extract_price_table(text)
    /\ UNCHANGED <<text, exceptScan>>

ScanNext == ExtractPriceTable

SpecScan == ScanInit /\ [][ScanNext]_vars

-----------------------------------------------------------------------------
(* What the scanner is specified to return (spec 4.1), stated on the       *)
(* comment-stripped copy the scan reads, by counting structural braces.    *)

\* the quote state after one more character c
QuoteStep(st, c) ==
    IF st.q # None
    THEN IF st.esc THEN [q |-> st.q, esc |-> FALSE]
         ELSE IF c = "\\" THEN [q |-> st.q, esc |-> TRUE]
         ELSE IF c = st.q THEN [q |-> None, esc |-> FALSE]
         ELSE st
    ELSE IF c \in {"'", "\""} THEN [q |-> c, esc |-> FALSE] ELSE st

\* The 0-based index of the brace closing the one at 0-based index open
\* (-1: none): the first structural "}" at which as many structural "}"
\* as "{" have been read since open.
RefClose(s, open) ==
    LET before[i \in open..Len(s)] ==
            \* the quote state before the character at index i
            IF i = open THEN [q |-> None, esc |-> FALSE]
            ELSE QuoteStep(before[i - 1], At(s, i - 1))
        structural(i) == before[i].q = None /\ At(s, i) \in {"{", "}"}
        opens(i) == Cardinality({j \in open..i : structural(j) /\ At(s, j) = "{"})
        closes(i) == Cardinality({j \in open..i : structural(j) /\ At(s, j) = "}"})
        hits == {i \in open..(Len(s) - 1) :
                    structural(i) /\ At(s, i) = "}" /\ opens(i) = closes(i)}
    IN  IF hits = {} THEN -1 ELSE CHOOSE i \in hits : \A j \in hits : i <= j

RefPrefix(t) == FindFrom(no_comments_of(t), PricePrefix, 0)
RefOpen(t) ==
    IF RefPrefix(t) < 0 THEN -1
    ELSE FindFrom(no_comments_of(t), <<"{">>, RefPrefix(t))
RefBalanced(t) == RefOpen(t) >= 0 /\ RefClose(no_comments_of(t), RefOpen(t)) >= 0
RefSpan(t) ==
    trim(Slice(no_comments_of(t), RefOpen(t) + 1,
               RefClose(no_comments_of(t), RefOpen(t))))

\* C1: whenever the text holds the prefix followed by a balanced literal,
\* extract_price_table returns exactly the trimmed text strictly between
\* the first "{" after the prefix and its matching "}", braces inside
\* quoted strings not counting.
C1_ExactSpan ==
    (scan_out # Pending /\ RefBalanced(text)) => scan_out = Returned(RefSpan(text))

\* C2: whenever the prefix is missing, or no "{" follows it, or the scan
\* from that "{" reaches the end of input before the depth is back at
\* zero, extract_price_table fails and returns nothing.
C2_FailsWhenMalformed ==
    (scan_out # Pending /\ ~RefBalanced(text)) => scan_out = Panic

\* Both hold on texts whose characters are all one byte long.
OneByteText == \A i \in 1..Len(text) : len_utf8(text[i]) = 1
ScanExactOnOneByteText ==
    (scan_out # Pending /\ OneByteText) =>
        scan_out = (IF RefBalanced(text) THEN Returned(RefSpan(text)) ELSE Panic)

-----------------------------------------------------------------------------
(* remove_trailing_commas_recursive, main.rs 173-186                       *)

\* the 0-based index of the first character at or after i that is not
\* whitespace (Len(s): none), where the regex's greedy \s* stops
SkipWs(s, i) ==
    LET rest == {j \in i..(Len(s) - 1) : ~is_whitespace(At(s, j))}
    IN  IF rest = {} THEN Len(s) ELSE CHOOSE j \in rest : \A k \in rest : j <= k

IsClose(c) == c \in {"}", "]"}

RECURSIVE ReplaceClose(_)
\* line 176: replace_all of ,\s*(?P<close>[\}\]]) by $close, the matches
\* taken leftmost first and not overlapping
ReplaceClose(s) ==
    IF s = <<>> THEN <<>>
    ELSE LET j == SkipWs(s, 1) IN
         IF Head(s) = "," /\ j < Len(s) /\ IsClose(At(s, j))
         THEN <<At(s, j)>> \o ReplaceClose(Slice(s, j + 1, Len(s)))
         ELSE <<Head(s)>> \o ReplaceClose(Tail(s))

RECURSIVE CloseLoop(_)
\* lines 175-181: until a pass changes nothing
CloseLoop(s) ==
    LET new_text == ReplaceClose(s)
    IN  IF new_text = s THEN s ELSE CloseLoop(new_text)

\* line 183: replace_all of ,\s*$ by "": $ is the end of the text only, so
\* the one match starts at the leftmost comma that only whitespace follows
StripEnd(s) ==
    LET hits == {i \in 0..(Len(s) - 1) :
                    At(s, i) = "," /\ SkipWs(s, i + 1) = Len(s)}
    IN  IF hits = {} THEN s
        ELSE Slice(s, 0, CHOOSE i \in hits : \A j \in hits : i <= j)

remove_trailing_commas_recursive(s) == StripEnd(CloseLoop(s))

MaxCommaLen == 5

CommaChars == {",", " ", "}", "]", "1"}

CommaInit ==
    /\ comma_text \in SeqUpTo(CommaChars, MaxCommaLen)
    /\ comma_once = Pending
    /\ comma_twice = Pending
    /\ ScanIdle /\ TsIdle /\ TravIdle /\ ProcIdle

\* line 225
RemoveOnce ==
    /\ comma_once = Pending
    /\ comma_once' = Returned(remove_trailing_commas_recursive(comma_text))
    /\ UNCHANGED <<comma_text, comma_twice, exceptComma>>

\* the function run again on its own result
RemoveTwice ==
    /\ comma_once # Pending
    /\ comma_twice = Pending
    /\ comma_twice' = Returned(remove_trailing_commas_recursive(comma_once.val))
    /\ UNCHANGED <<comma_text, comma_once, exceptComma>>

CommaNext == RemoveOnce \/ RemoveTwice

SpecComma == CommaInit /\ [][CommaNext]_vars

\* C5: remove_trailing_commas_recursive is idempotent: run on its own
\* result it returns that result again.
C5_Idempotent == comma_twice # Pending => comma_twice = comma_once

\* The first part alone, the loop of lines 175-181, leaves no comma before
\* a closing bracket, and a second run of the whole function changes its
\* result only by the comma the single pass of line 183 left at the end.
NoCommaBeforeClose(s) ==
    \A i \in 0..(Len(s) - 1) :
        At(s, i) = "," => ~(SkipWs(s, i + 1) < Len(s) /\ IsClose(At(s, SkipWs(s, i + 1))))
CommaLoopDone == comma_once # Pending => NoCommaBeforeClose(comma_once.val)

-----------------------------------------------------------------------------
(* extract_timestamp_from_block, main.rs 131-141                           *)
(* In a block the element "TimeStamp" stands for those nine letters in a   *)
(* row; "U+0663" is ARABIC-INDIC DIGIT THREE, a decimal digit that is not  *)
(* an ASCII digit.  An integer is its decimal digits without leading       *)
(* zeros, since the values at stake exceed the integers of TLC.            *)

AsciiDigits == {"0", "1", "2", "3", "4", "5", "6", "7", "8", "9"}

\* regex \d: any Unicode decimal digit
IsRegexDigit(c) == c \in AsciiDigits \cup {"U+0663"}

DigitVal(c) ==
    CASE c = "0" -> 0 [] c = "1" -> 1 [] c = "2" -> 2 [] c = "3" -> 3
      [] c = "4" -> 4 [] c = "5" -> 5 [] c = "6" -> 6 [] c = "7" -> 7
      [] c = "8" -> 8 [] c = "9" -> 9

\* i64::MAX = 9223372036854775807
I64MaxDigits ==
    <<"9", "2", "2", "3", "3", "7", "2", "0", "3", "6", "8", "5", "4", "7",
      "7", "5", "8", "0", "7">>

RECURSIVE StripZeros(_)
StripZeros(ds) ==
    IF Len(ds) > 1 /\ Head(ds) = "0" THEN StripZeros(Tail(ds)) ELSE ds

RECURSIVE DigitsLeq(_, _)
\* a <= b for digit strings of one length
DigitsLeq(a, b) ==
    IF a = <<>> THEN TRUE
    ELSE IF DigitVal(Head(a)) < DigitVal(Head(b)) THEN TRUE
    ELSE IF DigitVal(Head(a)) > DigitVal(Head(b)) THEN FALSE
    ELSE DigitsLeq(Tail(a), Tail(b))

NoneOpt == <<"None">>
SomeOf(v) == <<"Some", v>>

\* the overflow check dropped: any value of that length passes
FitsAtFullLength_Unchecked(v) == Len(v) = Len(I64MaxDigits)

\* the overflow check of i64's FromStr on a value of n digits, n being at
\* least the length of i64::MAX
FitsAtFullLength(v) ==
    Len(v) = Len(I64MaxDigits) /\ DigitsLeq(v, I64MaxDigits)

\* line 135: str::parse::<i64> of a non-empty run matched by \d+.  Err
\* (NoneOpt here) for a character that is not an ASCII digit and for a
\* value above i64::MAX; leading zeros do not count.
parse_i64(ds) ==
    IF \E i \in 1..Len(ds) : ds[i] \notin AsciiDigits THEN NoneOpt
    ELSE LET v == StripZeros(ds) IN
         IF Len(v) < Len(I64MaxDigits) \/ FitsAtFullLength(v)
         THEN SomeOf(v) ELSE NoneOpt

\* the 0-based index after the greedy run of \d from i
SkipDigits(s, i) ==
    LET rest == {j \in i..(Len(s) - 1) : ~IsRegexDigit(At(s, j))}
    IN  IF rest = {} THEN Len(s) ELSE CHOOSE j \in rest : \A k \in rest : j <= k

\* The regex of line 132 from the element "TimeStamp" at 0-based index i on:
\*   ['"]? \s* \]? \s* = \s* (\d+)
\* Returns the bounds [from, to) of group 1, or <<>> when there is no match
\* here.  What precedes the key, \[? \s* ['"]?, is optional throughout.
MatchAt(s, i) ==
    LET a == IF i + 1 < Len(s) /\ At(s, i + 1) \in {"'", "\""} THEN i + 2 ELSE i + 1
        b == SkipWs(s, a)
        c == IF b < Len(s) /\ At(s, b) = "]" THEN b + 1 ELSE b
        d == SkipWs(s, c)
    IN  IF d < Len(s) /\ At(s, d) = "="
        THEN LET e == SkipWs(s, d + 1)
                 f == SkipDigits(s, e)
             IN  IF f > e THEN <<e, f>> ELSE <<>>
        ELSE <<>>

\* lines 131-141: the leftmost match is at the first "TimeStamp" from which
\* the rest of the regex matches
extract_timestamp_from_block(s) ==
    LET hits == {i \in 0..(Len(s) - 1) :
                    At(s, i) = "TimeStamp" /\ MatchAt(s, i) # <<>>}
    IN  IF hits = {} THEN NoneOpt
        ELSE LET i == CHOOSE h \in hits : \A j \in hits : h <= j
                 m == MatchAt(s, i)
             IN  parse_i64(Slice(s, m[1], m[2]))

MaxDigits == 20

Rep(c, n) == [i \in 1..n |-> c]

DigitRuns ==
    UNION {{Rep("9", n), Rep("0", n), <<"1">> \o Rep("0", n - 1),
            Rep("0", n - 1) \o <<"7">>} : n \in 1..MaxDigits}
    \cup {I64MaxDigits,
          SubSeq(I64MaxDigits, 1, Len(I64MaxDigits) - 1) \o <<"8">>,
          <<"0">> \o I64MaxDigits,
          <<"U+0663", "1">>, <<"U+0663">>, <<>>}

TsBefore == {<<>>, <<"[", "\"">>, <<"x", " ">>}
TsAfterKey ==
    {<<"=">>, <<" ", "=", " ">>, <<"\"", " ", "]", " ", "=">>, <<"]", "=", "\n">>,
     <<" ", "\"", "=">>, <<"]", "]", "=">>, <<"x", "=">>, <<>>}
TsRest ==
    {<<>>, <<"x">>, <<",", "TimeStamp", "=", "5">>,
     <<" ", "[", "'", "TimeStamp", "'", "]", " ", "=", " ", "4", "2", ",">>,
     <<"TimeStamp">>}

TsInputs ==
    {p \o <<"TimeStamp">> \o k \o d \o r :
        p \in TsBefore, k \in TsAfterKey, d \in DigitRuns, r \in TsRest}
    \cup (TsRest \ {<<>>}) \cup {<<"x", "=", "1">>}

TsInit ==
    /\ block \in TsInputs
    /\ ts_out = Pending
    /\ ScanIdle /\ CommaIdle /\ TravIdle /\ ProcIdle

\* line 222
ExtractTimestamp ==
    /\ ts_out = Pending
    /\ ts_out' = Returned(extract_timestamp_from_block(block))
    /\ UNCHANGED <<block, exceptTs>>

TsNext == ExtractTimestamp

SpecTs == TsInit /\ [][TsNext]_vars

-----------------------------------------------------------------------------
(* What extract_timestamp_from_block returns, stated by the shape of an     *)
(* occurrence (spec 4.4) rather than by a left-to-right match.              *)

\* g is what may stand between the key and the digits: an optional quote
\* right after the key, an optional "]", then "=", with whitespace allowed
\* everywhere but before the quote
IsKeyTail(g) ==
    \E e \in 1..Len(g) :
        /\ g[e] = "="
        /\ \A j \in (e + 1)..Len(g) : is_whitespace(g[j])
        /\ LET h == SubSeq(g, 1, e - 1)
               marks == SelectSeq(h, LAMBDA c : ~is_whitespace(c))
           IN  /\ marks \in {<<>>, <<"'">>, <<"\"">>, <<"]">>,
                             <<"'", "]">>, <<"\"", "]">>}
               /\ (marks # <<>> /\ marks[1] \in {"'", "\""}) => h[1] = marks[1]

\* the occurrences <<key index, first digit index>> (0-based), the digits
\* being those of the class isDigit
Occurrences(s, isDigit(_)) ==
    {o \in (0..(Len(s) - 1)) \X (0..(Len(s) - 1)) :
        /\ At(s, o[1]) = "TimeStamp"
        /\ o[1] < o[2]
        /\ isDigit(At(s, o[2]))
        /\ IsKeyTail(Slice(s, o[1] + 1, o[2]))}

FirstOccurrence(s, isDigit(_)) ==
    CHOOSE o \in Occurrences(s, isDigit) :
        \A p \in Occurrences(s, isDigit) : o[1] <= p[1]

\* the longest run of isDigit characters from 0-based index d
RunFrom(s, d, isDigit(_)) ==
    LET ends == {f \in (d + 1)..Len(s) : \A j \in d..(f - 1) : isDigit(At(s, j))}
    IN  Slice(s, d, CHOOSE f \in ends : \A g \in ends : g <= f)

IsAsciiDigit(c) == c \in AsciiDigits

\* ds, all ASCII digits, denotes a value of at most i64::MAX: written with
\* leading zeros to one length, it is i64::MAX or smaller at the first
\* digit that differs
AtMostI64Max(ds) ==
    LET n == IF Len(ds) > Len(I64MaxDigits) THEN Len(ds) ELSE Len(I64MaxDigits)
        a == Rep("0", n - Len(ds)) \o ds
        b == Rep("0", n - Len(I64MaxDigits)) \o I64MaxDigits
    IN  \/ a = b
        \/ \E k \in 1..n : /\ DigitVal(a[k]) < DigitVal(b[k])
                           /\ \A j \in 1..(k - 1) : a[j] = b[j]

\* C9 as stated: the value of the first occurrence of the key followed by
\* "=" and an unsigned integer, whatever the number of digits, and
\* not-found only when there is no occurrence.
C9_ValueOfFirstOccurrence ==
    ts_out # Pending =>
        ts_out = Returned(
            IF Occurrences(block, IsAsciiDigit) = {} THEN NoneOpt
            ELSE SomeOf(StripZeros(RunFrom(block,
                            FirstOccurrence(block, IsAsciiDigit)[2], IsAsciiDigit))))

\* C9 as amended: the call never fails; it returns the value of the first
\* occurrence when that occurrence's run of decimal digits is all ASCII and
\* denotes at most i64::MAX, and not-found when there is no occurrence or
\* the first occurrence's run does not parse as an i64.
C9_ValueWhenItFits ==
    ts_out # Pending =>
        ts_out = Returned(
            IF Occurrences(block, IsRegexDigit) = {} THEN NoneOpt
            ELSE LET ds == RunFrom(block, FirstOccurrence(block, IsRegexDigit)[2],
                                   IsRegexDigit)
                 IN  IF (\A i \in 1..Len(ds) : IsAsciiDigit(ds[i])) /\ AtMostI64Max(ds)
                     THEN SomeOf(StripZeros(ds)) ELSE NoneOpt)

\* reached: a first occurrence of exactly i64::MAX written with a leading
\* zero, returned, with a second key after it; and a 20-digit first
\* occurrence answered not-found
C9_Witness ==
    /\ ts_out = Returned(SomeOf(I64MaxDigits))
    /\ Cardinality(Occurrences(block, IsRegexDigit)) = 2
    /\ Len(RunFrom(block, FirstOccurrence(block, IsRegexDigit)[2], IsRegexDigit)) = 20

-----------------------------------------------------------------------------
(* serde_json::Value and PriceInfo, main.rs 11-31                          *)
(* A value is [t, e]: t its kind, e the entries <<key, value>> of an       *)
(* object in the order the Map iterates them (keys unique), <<>> else.     *)
(* Numbers come in the kinds serde tells apart: "uint" a non-negative      *)
(* integer that fits u32, "big" an integer above u32::MAX, "neg" a         *)
(* negative integer, "frac" a number with a fraction or an exponent.       *)

V(kind) == [t |-> kind, e |-> <<>>]
Obj(entries) == [t |-> "obj", e |-> entries]
Null == V("null")

IsObj(v) == v.t = "obj"
contains_key(v, k) == \E i \in 1..Len(v.e) : v.e[i][1] = k
Get(v, k) == (CHOOSE en \in {v.e[i] : i \in 1..Len(v.e)} : en[1] = k)[2]

NumKinds == {"uint", "big", "neg", "frac"}

\* the kinds each field of PriceInfo deserializes from (lines 13-30)
F64Field(v, k) == contains_key(v, k) /\ Get(v, k).t \in NumKinds
\* the count fields taken as signed: a negative count passes
U32Field_Signed(v, k) == contains_key(v, k) /\ Get(v, k).t \in {"uint", "neg"}

U32Field(v, k) == contains_key(v, k) /\ Get(v, k).t = "uint"
OptF64Field(v, k) == contains_key(v, k) => Get(v, k).t \in NumKinds \cup {"null"}
OptU32Field(v, k) == contains_key(v, k) => Get(v, k).t \in {"uint", "null"}

\* lines 195-197: serde_json::from_value::<PriceInfo> is Ok
from_value_ok(inner) ==
    /\ F64Field(inner, "A") /\ F64Field(inner, "X") /\ F64Field(inner, "N")
    /\ U32Field(inner, "EC") /\ U32Field(inner, "AC")
    /\ OptF64Field(inner, "S") /\ OptF64Field(inner, "SA")
    /\ OptU32Field(inner, "SE") /\ OptU32Field(inner, "SAC")

PriceFields == {"A", "X", "N", "EC", "AC", "S", "SA", "SE", "SAC"}

\* the PriceInfo of a valid object: per field the kind read, "None" for an
\* optional field that is absent or null
PriceInfoOf(inner) ==
    [f \in PriceFields |->
        IF contains_key(inner, f) /\ Get(inner, f).t # "null"
        THEN Get(inner, f).t ELSE "None"]

\* line 200 pads to this many path entries; lines 202-206 read as many
PathWidth == 5

RECURSIVE PadTo(_, _)
\* line 200: while p.len() < 5 { p.push("") }
PadTo(p, n) == IF Len(p) < n THEN PadTo(Append(p, ""), n) ELSE p

\* the identity read from one entry fewer, the last left empty
Identity_OneShort(p) == SubSeq(PadTo(p, PathWidth), 1, PathWidth - 1) \o <<"">>

\* lines 199-206: item_id, quality, level, trait_id, variant
Identity(p) == SubSeq(PadTo(p, PathWidth), 1, PathWidth)

\* line 213 left out
pop_Kept(p) == p

\* Vec::pop, line 213
pop(p) == SubSeq(p, 1, Len(p) - 1)

-----------------------------------------------------------------------------
(* traverse_value, main.rs 188-216, one action per step of the loop.       *)
(* A call is [map, rest, pc]: the object it iterates, the entries not yet  *)
(* done (the current one first), and where it stands in the loop body:     *)
(* "loop" at line 190, "body" at line 193, "pop" at line 213.              *)

Frame(v) == [map |-> v, rest |-> v.e, pc |-> "loop"]

Top == stack[Len(stack)]
SetTop(f) == [stack EXCEPT ![Len(stack)] = f]
CurKey(f) == Head(f.rest)[1]
CurVal(f) == Head(f.rest)[2]

\* the discriminator asking for the fields' Rust names
IsLeaf_RustNames(inner) == contains_key(inner, "avg") /\ contains_key(inner, "max")

\* line 194
IsLeaf(inner) == contains_key(inner, "A") /\ contains_key(inner, "X")

\* lines 231 and 189: the outermost call; a value that is no object is
\* left alone
TravCall ==
    /\ trav_pc = "call"
    /\ IF IsObj(tree)
       THEN stack' = <<Frame(tree)>> /\ trav_pc' = "run"
       ELSE stack' = <<>> /\ trav_pc' = "done"
    /\ UNCHANGED <<tree, timestamp, path, results, visited, parse_out, exceptTrav>>

\* lines 190-191: the next entry, its key pushed
TravPush ==
    /\ trav_pc = "run"
    /\ Top.pc = "loop" /\ Top.rest # <<>>
    /\ path' = Append(path, CurKey(Top))
    /\ stack' = SetTop([Top EXCEPT !.pc = "body"])
    /\ UNCHANGED <<tree, timestamp, trav_pc, results, visited, parse_out, exceptTrav>>

\* lines 193-208: an object with "A" and "X" becomes a record, or the
\* expect of line 197 panics
TravLeaf ==
    /\ trav_pc = "run"
    /\ Top.pc = "body" /\ IsObj(CurVal(Top)) /\ IsLeaf(CurVal(Top))
    /\ IF from_value_ok(CurVal(Top))
       THEN /\ results' = Append(results, [id |-> Identity(path),
                                           price |-> PriceInfoOf(CurVal(Top))])
            /\ visited' = Append(visited, path)
            /\ stack' = SetTop([Top EXCEPT !.pc = "pop"])
            /\ UNCHANGED <<trav_pc, parse_out>>
       ELSE /\ trav_pc' = "panic"
            /\ parse_out' = Panic
            /\ UNCHANGED <<stack, results, visited>>
    /\ UNCHANGED <<tree, timestamp, path, exceptTrav>>

\* lines 209-210 and 189: any other object is traversed by a call of its own
TravRecurse ==
    /\ trav_pc = "run"
    /\ Top.pc = "body" /\ IsObj(CurVal(Top)) /\ ~IsLeaf(CurVal(Top))
    /\ stack' = Append(SetTop([Top EXCEPT !.pc = "pop"]), Frame(CurVal(Top)))
    /\ UNCHANGED <<tree, timestamp, trav_pc, path, results, visited, parse_out, exceptTrav>>

\* line 193, no else: a value that is no object is passed over
TravSkip ==
    /\ trav_pc = "run"
    /\ Top.pc = "body" /\ ~IsObj(CurVal(Top))
    /\ stack' = SetTop([Top EXCEPT !.pc = "pop"])
    /\ UNCHANGED <<tree, timestamp, trav_pc, path, results, visited, parse_out, exceptTrav>>

\* line 213: the key popped, on to the next entry
TravPop ==
    /\ trav_pc = "run"
    /\ Top.pc = "pop"
    /\ path' = pop(path)
    /\ stack' = SetTop([Top EXCEPT !.pc = "loop", !.rest = Tail(@)])
    /\ UNCHANGED <<tree, timestamp, trav_pc, results, visited, parse_out, exceptTrav>>

\* lines 214-216: the entries are done, the call returns
TravReturn ==
    /\ trav_pc = "run"
    /\ Top.pc = "loop" /\ Top.rest = <<>>
    /\ stack' = SubSeq(stack, 1, Len(stack) - 1)
    /\ trav_pc' = IF Len(stack) = 1 THEN "done" ELSE "run"
    /\ UNCHANGED <<tree, timestamp, path, results, visited, parse_out, exceptTrav>>

\* line 233: the records and the timestamp are returned
ParseReturn ==
    /\ trav_pc = "done"
    /\ parse_out = Pending
    /\ parse_out' = Returned([records |-> results, timestamp |-> timestamp])
    /\ UNCHANGED <<tree, timestamp, trav_pc, stack, path, results, visited, exceptTrav>>

TravNext ==
    \/ TravCall
    \/ TravPush
    \/ TravLeaf
    \/ TravRecurse
    \/ TravSkip
    \/ TravPop
    \/ TravReturn
    \/ ParseReturn

-----------------------------------------------------------------------------
(* Documents for the flattener                                             *)

\* one entry of an object set, added or replaced
RECURSIVE WithEntry(_, _, _)
WithEntry(entries, k, v) ==
    IF entries = <<>> THEN <<<<k, v>>>>
    ELSE IF Head(entries)[1] = k THEN <<<<k, v>>>> \o Tail(entries)
    ELSE <<Head(entries)>> \o WithEntry(Tail(entries), k, v)

With(o, k, v) == Obj(WithEntry(o.e, k, v))
Without(o, k) == Obj(SelectSeq(o.e, LAMBDA en : en[1] # k))

\* { A=10.5, X=20, N=5, EC=3, AC=4 }, the leaf of the spec's example
GoodLeaf ==
    Obj(<<<<"A", V("frac")>>, <<"X", V("uint")>>, <<"N", V("uint")>>,
          <<"EC", V("uint")>>, <<"AC", V("uint")>>>>)

\* an object with "A" and "X" whose EC is negative
BadLeaf == With(GoodLeaf, "EC", V("neg"))

\* objects with "A" and "X" that deserialize
GoodLeaves ==
    {GoodLeaf,
     With(GoodLeaf, "S", V("frac")), With(GoodLeaf, "SA", V("null")),
     With(GoodLeaf, "SE", V("uint")), With(GoodLeaf, "SAC", V("null")),
     With(GoodLeaf, "N", V("neg")), With(GoodLeaf, "X", V("big")),
     With(GoodLeaf, "k", GoodLeaf), With(GoodLeaf, "k", BadLeaf),
     With(GoodLeaf, "extra", V("str"))}

\* objects with "A" and "X" that do not
BadLeaves ==
    {BadLeaf,
     With(GoodLeaf, "A", V("str")), With(GoodLeaf, "X", V("null")),
     With(GoodLeaf, "A", GoodLeaf), Without(GoodLeaf, "N"),
     With(GoodLeaf, "N", V("arr")), With(GoodLeaf, "EC", V("frac")),
     With(GoodLeaf, "AC", V("big")), Without(GoodLeaf, "AC"),
     With(GoodLeaf, "S", V("str")), With(GoodLeaf, "SE", V("frac")),
     With(GoodLeaf, "SAC", V("neg"))}

\* values that end a branch: leaves, scalars, an array, and objects that
\* lack "A" or "X"
Tips ==
    GoodLeaves \cup BadLeaves
    \cup {V("uint"), V("str"), V("arr"), Null, Obj(<<>>),
          Without(GoodLeaf, "X"), Without(GoodLeaf, "A")}

FewTips == {GoodLeaf, BadLeaf, V("uint")}

\* objects of one or two entries over FewTips
Twigs ==
    {Obj(<<<<k, a>>>>) : k \in {"f", ""}, a \in FewTips}
    \cup {Obj(<<<<ks[1], a>>, <<ks[2], b>>>>) :
            ks \in {<<"f", "g">>, <<"", "f">>}, a \in FewTips, b \in FewTips}

Branches == Tips \cup Twigs

SecondBranches == {GoodLeaf, BadLeaf, V("arr"), Obj(<<<<"f", GoodLeaf>>>>)}

\* the trees below the chain: objects of one or two entries over Branches,
\* and objects that hold "A" and "X" themselves beside a child
Crowns ==
    {Obj(<<<<k, a>>>>) : k \in {"k", "A"}, a \in Branches}
    \cup {Obj(<<<<"k", a>>, <<"m", b>>>>) : a \in Branches, b \in SecondBranches}
    \cup {With(l, "k", c) : l \in {GoodLeaf, BadLeaf}, c \in SecondBranches}

\* the longest chain of one-entry objects above a crown
MaxChain == 4

RECURSIVE Wrap(_, _)
Wrap(n, v) == IF n = 0 THEN v ELSE Obj(<<<<"k", Wrap(n - 1, v)>>>>)

TravDocs ==
    {Wrap(n, c) : n \in 0..MaxChain, c \in Crowns} \cup {Null, V("uint"), Obj(<<>>)}

\* the state at line 231, the document parsed
TravInit ==
    /\ tree \in TravDocs
    /\ timestamp = NoneOpt
    /\ trav_pc = "call"
    /\ stack = <<>> /\ path = <<>> /\ results = <<>> /\ visited = <<>>
    /\ parse_out = Pending
    /\ ScanIdle /\ CommaIdle /\ TsIdle /\ ProcIdle

SpecTrav == TravInit /\ [][TravNext]_vars

-----------------------------------------------------------------------------
(* The document as a tree of key paths, to state what the flattener owes   *)

KeysOf(v) == {v.e[i][1] : i \in 1..Len(v.e)}

RECURSIVE NodeAt(_, _)
\* the value at key path p below v
NodeAt(v, p) ==
    IF p = <<>> THEN v
    ELSE IF IsObj(v) /\ Head(p) \in KeysOf(v)
         THEN NodeAt(Get(v, Head(p)), Tail(p))
         ELSE V("missing")

RECURSIVE KeyPaths(_)
\* the key paths of all values in v, <<>> for v itself
KeyPaths(v) ==
    {<<>>} \cup UNION {{<<v.e[i][1]>> \o q : q \in KeyPaths(v.e[i][2])} :
                          i \in 1..Len(v.e)}

UniqueKeys(v) ==
    \A p \in KeyPaths(v) :
        LET o == NodeAt(v, p)
        IN  \A i, j \in 1..Len(o.e) : o.e[i][1] = o.e[j][1] => i = j

\* an object with both discriminator keys
HasAX(v) == IsObj(v) /\ {"A", "X"} \subseteq KeysOf(v)

\* the proper prefixes of p of length at least from
Above(p, from) == {SubSeq(p, 1, n) : n \in from..(Len(p) - 1)}

\* the objects with "A" and "X" that lie in no other such object, the
\* root counted (from = 0) or not (from = 1) among those objects
OutermostAX(v, from) ==
    {p \in KeyPaths(v) :
        /\ Len(p) >= from
        /\ HasAX(NodeAt(v, p))
        /\ \A q \in Above(p, from) : ~HasAX(NodeAt(v, q))}

NoDuplicates(s) == \A i, j \in 1..Len(s) : s[i] = s[j] => i = j
Range(s) == {s[i] : i \in 1..Len(s)}

\* The flattener's duty towards objects with "A" and "X", the calls from
\* the one at position first of the stack on being held to it: none of
\* them runs on such an object, every record stems from such an object
\* that lies in no other, no object yields two records, and a completed
\* traversal has a record for each.
LeafDiscipline(first) ==
    /\ \A i \in first..Len(stack) : ~HasAX(stack[i].map)
    /\ Len(results) = Len(visited)
    /\ NoDuplicates(visited)
    /\ \A i \in 1..Len(visited) : HasAX(NodeAt(tree, visited[i]))
    /\ first = 2 => Range(visited) \subseteq OutermostAX(tree, 1)
    /\ parse_out.st = "ok" => Range(visited) = OutermostAX(tree, first - 1)

\* C3: in the sub-tree at "Data" every object with "A" and "X" is a leaf
\* record: it is never recursed into, each one reached yields exactly one
\* record, and no object lacking either key yields one.
C3_EveryAXObjectIsALeaf == LeafDiscipline(1)

\* C3 as amended: the same of every object with "A" and "X" other than
\* the "Data" root itself, whose entries are always traversed.
C3_EveryAXObjectBelowRootIsALeaf == LeafDiscipline(2)

\* reached: a completed traversal whose root holds "A" and "X", with a
\* record from a child; and one with a record from an object that holds
\* another object with "A" and "X"
C3_Witness ==
    /\ parse_out.st = "ok"
    /\ \E i \in 1..Len(visited) : HasAX(NodeAt(tree, Append(visited[i], "k")))
    /\ \E p \in KeyPaths(tree) : "A" \in KeysOf(NodeAt(tree, p)) /\ ~HasAX(NodeAt(tree, p))

\* C4: for a tree whose keys are unique at each level no two records share
\* their 5-tuple identity, at whatever depth their objects lie.
C4_IdentitiesDistinct ==
    UniqueKeys(tree) =>
        \A i, j \in 1..Len(results) : results[i].id = results[j].id => i = j

\* C4 as amended: two records share their identity only when both objects
\* lie deeper than five keys (and then agree on the first five).
C4_IdentitiesDistinctWithinWidth ==
    UniqueKeys(tree) =>
        \A i, j \in 1..Len(results) :
            (results[i].id = results[j].id /\ i # j) =>
                /\ Len(visited[i]) > PathWidth /\ Len(visited[j]) > PathWidth
                /\ SubSeq(visited[i], 1, PathWidth) = SubSeq(visited[j], 1, PathWidth)

\* reached: two records, the first from a path shorter than five keys that
\* ends in the empty key, so that padding it adds keys equal to its last
C4_Witness ==
    /\ parse_out.st = "ok"
    /\ Len(results) = 2
    /\ Len(visited[1]) < PathWidth
    /\ visited[1][Len(visited[1])] = ""
    /\ results[1].id # results[2].id

\* the field failures C6 lists
FailsValidation(o) ==
    \/ \E f \in {"A", "X", "N", "EC", "AC"} :
           f \notin KeysOf(o) \/ Get(o, f).t \notin NumKinds
    \/ \E f \in {"EC", "AC"} : Get(o, f).t \in {"neg", "frac"}
    \/ \E f \in {"S", "SA"} :
           f \in KeysOf(o) /\ Get(o, f).t \notin NumKinds \cup {"null"}
    \/ \E f \in {"SE", "SAC"} :
           f \in KeysOf(o) /\ Get(o, f).t \notin {"uint", "big", "null"}

\* an object with "A" and "X", in no other such object, fails validation
InvalidLeaf(from) ==
    \E p \in OutermostAX(tree, from) : FailsValidation(NodeAt(tree, p))

\* The conversion, once it holds such an object, never completes the
\* traversal nor returns, and when it stops it has panicked.
AbortsOn(from) ==
    InvalidLeaf(from) =>
        /\ trav_pc # "done"
        /\ parse_out \in {Pending, Panic}
        /\ parse_out = Panic \/ ENABLED TravNext

\* C6: an object with "A" and "X" that the flattener reaches and that
\* fails validation fails the whole conversion: no record list is returned.
C6_InvalidLeafAborts == AbortsOn(0)

\* C6 as amended: the same of every such object other than the "Data"
\* root itself, which is never validated.
C6_InvalidLeafBelowRootAborts == AbortsOn(1)

\* reached: the panic, with a record of an earlier leaf already collected
C6_Witness ==
    /\ parse_out = Panic
    /\ trav_pc = "panic"
    /\ Len(results) >= 1
    /\ FailsValidation(CurVal(Top))

\* C10: the path stack is the chain of the keys the active calls are at:
\* a call between entries adds none (the path is as at its entry), a call
\* inside an entry adds that entry's key, each call runs on the object at
\* the keys above it, and the path is empty once the outermost call is back.
C10_PathIsAncestorChain ==
    LET n == Len(stack)
        m == IF n > 0 /\ Top.pc = "loop" THEN n - 1 ELSE n
    IN  /\ path = [i \in 1..m |-> CurKey(stack[i])]
        /\ \A i \in 1..(n - 1) : stack[i].pc = "pop"
        /\ \A i \in 1..n : stack[i].map = NodeAt(tree, SubSeq(path, 1, i - 1))
        /\ \A i \in 1..m : CurVal(stack[i]) = NodeAt(tree, SubSeq(path, 1, i))
        /\ trav_pc \in {"call", "done"} => path = <<>> /\ stack = <<>>

\* reached: the key of an array, pushed three calls deep, about to be popped
C10_Witness ==
    /\ trav_pc = "run"
    /\ Len(stack) >= 3
    /\ Top.pc = "pop"
    /\ CurVal(Top).t = "arr"
    /\ Len(path) = Len(stack)

-----------------------------------------------------------------------------
(* extract_item_lookup_table and parse_item_lookup (lines 123-129, 236-247) *)
(* on texts whose elements are characters, with "L" standing for            *)
(* self.ItemLookUpTable and "end" for the keyword                           *)

Lit(s, i, c) == i < Len(s) /\ At(s, i) = c

\* the least member of a non-empty set of indices
Least(S) == CHOOSE i \in S : \A j \in S : i <= j

\* The regex of line 124 from the "L" at index i on:
\*   self\.ItemLookUpTable \s* = \s* \{ (?s)(.*?) \} \s* end
\* <<from, to>> of the body, the shortest that a "}", white space and
\* "end" follow, or <<>>
LookupBodyAt(s, i) ==
    LET eq == SkipWs(s, i + 1)
        open == SkipWs(s, eq + 1)
        closers == {j \in (open + 1)..(Len(s) - 1) :
                       At(s, j) = "}" /\ Lit(s, SkipWs(s, j + 1), "end")}
    IN  IF Lit(s, eq, "=") /\ Lit(s, open, "{") /\ closers # {}
        THEN <<open + 1, Least(closers)>>
        ELSE <<>>

\* lines 123-129: the body of the leftmost match
extract_item_lookup_table(s) ==
    LET hits == {i \in 0..(Len(s) - 1) :
                    At(s, i) = "L" /\ LookupBodyAt(s, i) # <<>>}
    IN  IF hits = {} THEN NoneOpt
        ELSE LET m == LookupBodyAt(s, Least(hits))
             IN  SomeOf(Slice(s, m[1], m[2]))

NoEntry == [end |-> -1, name |-> <<>>, id |-> <<>>]

\* The regex of line 239 from the "[" at index i on:
\*   \[ \s* " ([^"]+) " \s* \] \s* = \s* \{ \s* \[ \s* \d+ \s* \] \s* =
\*   \s* (\d+) \s* ,? \s* \}
\* No class overlaps the element after it, so the greedy match is the
\* only one.
EntryAt(s, i) ==
    LET q1 == SkipWs(s, i + 1)
        quotes == {j \in (q1 + 1)..(Len(s) - 1) : At(s, j) = "\""}
        q2 == Least(quotes)
        close == SkipWs(s, q2 + 1)
        eq == SkipWs(s, close + 1)
        open == SkipWs(s, eq + 1)
        sub == SkipWs(s, open + 1)
        idx == SkipWs(s, sub + 1)
        idxEnd == SkipDigits(s, idx)
        subEnd == SkipWs(s, idxEnd)
        eq2 == SkipWs(s, subEnd + 1)
        num == SkipWs(s, eq2 + 1)
        numEnd == SkipDigits(s, num)
        comma == SkipWs(s, numEnd)
        last == IF Lit(s, comma, ",") THEN SkipWs(s, comma + 1) ELSE comma
    IN  IF /\ Lit(s, i, "[") /\ Lit(s, q1, "\"")
           /\ quotes # {} /\ q2 > q1 + 1
           /\ Lit(s, close, "]") /\ Lit(s, eq, "=") /\ Lit(s, open, "{")
           /\ Lit(s, sub, "[") /\ idxEnd > idx
           /\ Lit(s, subEnd, "]") /\ Lit(s, eq2, "=") /\ numEnd > num
           /\ Lit(s, last, "}")
        THEN [end |-> last + 1, name |-> Slice(s, q1 + 1, q2),
              id |-> Slice(s, num, numEnd)]
        ELSE NoEntry

RECURSIVE captures_iter(_, _)
\* line 240: the matches from left to right, none overlapping another
captures_iter(s, from) ==
    LET hits == {i \in from..(Len(s) - 1) : EntryAt(s, i) # NoEntry}
    IN  IF hits = {} THEN <<>>
        ELSE LET en == EntryAt(s, Least(hits))
             IN  <<en>> \o captures_iter(s, en.end)

\* lines 241-243: the map after the inserts, a later one replacing an
\* earlier one of the same id
Inserted(caps) ==
    {<<caps[i].id, caps[i].name>> :
        i \in {j \in 1..Len(caps) :
                  \A k \in (j + 1)..Len(caps) : caps[k].id # caps[j].id}}

\* lines 236-247
parse_item_lookup(s) ==
    LET body == extract_item_lookup_table(s)
    IN  IF body = NoneOpt THEN {} ELSE Inserted(captures_iter(body[2], 0))

-----------------------------------------------------------------------------
(* process_server and main (lines 276-340)                                 *)

\* What lines 224-228 make of the extracted block is taken from the
\* document: json_ok, whether serde_json::from_str parses the translated
\* text, and data, the value of its "Data" key (Null without one).
Doc(t, ok, d) == [text |-> t, json_ok |-> ok, data |-> d]

TableText(ds) ==
    PricePrefix \o <<"=", "{", "TimeStamp", "=">> \o ds \o <<",", "}">>

ProcDocs ==
    {Doc(TableText(<<"1", "7">>), TRUE,
         Obj(<<<<"1", GoodLeaf>>, <<"2", Obj(<<<<"3", GoodLeaf>>>>)>>,
               <<"4", V("arr")>>>>)),
     Doc(TableText(<<"1", "7">>), TRUE,
         Obj(<<<<"1", GoodLeaf>>, <<"2", BadLeaf>>>>)),
     Doc(TableText(<<"1", "7">>), FALSE, Null),
     Doc(TableText(I64MaxDigits), TRUE, Obj(<<<<"1", GoodLeaf>>>>)),
     Doc(PricePrefix \o <<"=", "{", "}">>, TRUE, Null),
     Doc(PricePrefix \o <<"=", "{">>, TRUE, Null),
     Doc(<<"x">>, TRUE, Null)}

LookupEntry(name, id) ==
    <<"[", "\"">> \o name \o <<"\"", "]", " ", "=", " ", "{", "[", "1", "]", "=">>
        \o id \o <<"}">>

LookupTexts ==
    {<<"L", " ", "=", " ", "{">> \o LookupEntry(<<"a">>, <<"1", "2">>) \o <<",", "\n">>
         \o LookupEntry(<<"b", " ", "c">>, <<"7">>) \o <<",", "}", " ", "end">>,
     <<"L", "=", "{">> \o LookupEntry(<<"a">>, <<"7">>) \o <<",">>
         \o LookupEntry(<<"b">>, <<"7">>) \o <<"}", "end">>,
     <<"L", "=", "{", "x", "}", " ", "end">>,
     <<"L", "=", "{">> \o LookupEntry(<<"a">>, <<"7">>) \o <<"}">>,
     LookupEntry(<<"a">>, <<"7">>) \o <<" ", "end">>,
     <<>>}

Archives ==
    {[lua |-> l, lookup |-> k] :
        l \in {Absent} \cup {Member(d) : d \in ProcDocs},
        k \in {Absent} \cup {Member(t) : t \in LookupTexts}}

\* lines 278-291 and 337-338
Regions == <<"NA", "EU">>
zip_path == <<"PriceTableNA.zip", "PriceTableEU.zip">>
lua_filename == <<"PriceTableNA.lua", "PriceTableEU.lua">>
lookup_filename == "ItemLookUpTable_EN.lua"
Latest == <<"latest">>
Cwd == <<>>
PathOf(dir, name) == [dir |-> dir, name |-> name]
zip_file(r) == PathOf(Cwd, zip_path[r])
lua_output(r) == PathOf(Cwd, lua_filename[r])
\* lines 290 and 320: format!("{}.csv", csv_prefix); lines 337-338: the
\* same names under latest/
csv_name == <<"na.csv", "eu.csv">>

\* the order of the statements of process_server and main that start at
\* another position of the deployment
StepAfter_LatestFirst(p) ==
    CASE p = "download" -> "extract_lua"
      [] p = "extract_lua" -> "extract_lookup"
      [] p = "extract_lookup" -> "write_latest"
      [] p = "write_latest" -> "parse"
      [] p = "parse" -> "traverse"
      [] p = "traverse" -> "write_csv"
      [] p = "write_csv" -> "write_lookup"
      [] p = "write_lookup" -> "write_latest_lookup"
      [] p = "write_latest_lookup" -> "cleanup"
      [] p = "cleanup" -> "download"

\* lines 297-331, 337-338: the position after position p
StepAfter(p) ==
    CASE p = "download" -> "extract_lua"
      [] p = "extract_lua" -> "extract_lookup"
      [] p = "extract_lookup" -> "parse"
      [] p = "parse" -> "traverse"
      [] p = "traverse" -> "write_csv"
      [] p = "write_csv" -> "write_latest"
      [] p = "write_latest" -> "write_lookup"
      [] p = "write_lookup" -> "write_latest_lookup"
      [] p = "write_latest_lookup" -> "cleanup"
      [] p = "cleanup" -> "download"

\* line 315 with Utc::now() fixed: the seconds the folder is named after
Now == <<"1", "8">>
timestamp_of(opt) == IF opt = NoneOpt THEN Now ELSE opt[2]

\* line 316: DateTime::from_timestamp is Some for fewer than 13 digits
\* of seconds and None for more; at 13 digits the bound of the chrono
\* release decides, so both are outcomes
from_timestamp_is_some(ts) ==
    IF Len(ts) = 13 THEN BOOLEAN ELSE {Len(ts) < 13}

\* line 317, the folder named by the timestamp the date is formatted from
folder_of(ts) == <<"date of">> \o ts

\* lines 320-326: the file each write position writes
OutputAt(p, r, folder) ==
    CASE p = "write_csv" -> PathOf(folder, csv_name[r])
      [] p = "write_latest" -> PathOf(Latest, csv_name[r])
      [] p = "write_lookup" -> PathOf(folder, "lookup.csv")
      [] p = "write_latest_lookup" -> PathOf(Latest, "lookup.csv")

WriteSteps == {"write_csv", "write_latest", "write_lookup", "write_latest_lookup"}
IoSteps == WriteSteps \cup {"download", "extract_lua", "extract_lookup", "cleanup"}

\* line 309, with the region whose run prints it
Warning(r) == <<Regions[r], "Warning: not found in ZIP archive; item names will be empty">>

\* line 297, download_zip (43-52): the archive is fetched and written, or
\* an expect panics
Download ==
    /\ pc = "download" /\ exit = "running"
    /\ \/ /\ archive' \in Archives
          /\ fs' = fs \cup {zip_file(run)}
          /\ pc' = StepAfter(pc)
          /\ UNCHANGED exit
       \/ /\ exit' = "panic"
          /\ UNCHANGED <<archive, fs, pc>>
    /\ UNCHANGED <<run, lookup_map, log, conv, outputs, scanVars, commaVars, tsVars, travVars>>

\* line 298, extract_lua_from_zip (54-72): Err without the price file
ExtractLua ==
    /\ pc = "extract_lua" /\ exit = "running"
    /\ IF archive.lua = Absent
       THEN exit' = "err" /\ UNCHANGED <<fs, pc>>
       ELSE fs' = fs \cup {lua_output(run)} /\ pc' = StepAfter(pc) /\ UNCHANGED exit
    /\ UNCHANGED <<run, archive, lookup_map, log, conv, outputs, scanVars, commaVars, tsVars, travVars>>

\* lines 300-310: the lookup file is extracted, read, parsed and removed,
\* or the warning is printed
ExtractLookup ==
    /\ pc = "extract_lookup" /\ exit = "running"
    /\ IF archive.lookup = Absent
       THEN /\ lookup_map' = {}
            /\ log' = log \cup {Warning(run)}
       ELSE /\ lookup_map' = parse_item_lookup(archive.lookup.content)
            /\ UNCHANGED log
    /\ pc' = StepAfter(pc)
    /\ UNCHANGED <<run, exit, archive, fs, conv, outputs, scanVars, commaVars, tsVars, travVars>>

\* lines 311-312, 221-231: the block is extracted, the timestamp read, the
\* document parsed and the flattener called with an empty path and list; a
\* panic of extract_price_table or of the expect of line 228 ends the run
ParseTtcLua ==
    /\ pc = "parse" /\ exit = "running"
    /\ LET doc == archive.lua.content
           extracted == extract_price_table(doc.text)
       IN  IF extracted = Panic \/ ~doc.json_ok
           THEN /\ exit' = "panic"
                /\ conv' = [conv EXCEPT ![run] = "panic"]
                /\ UNCHANGED <<pc, travVars>>
           ELSE /\ timestamp' = extract_timestamp_from_block(extracted.val)
                /\ tree' = doc.data
                /\ stack' = <<>> /\ path' = <<>> /\ results' = <<>> /\ visited' = <<>>
                /\ parse_out' = Pending
                /\ trav_pc' = "call"
                /\ pc' = StepAfter(pc)
                /\ UNCHANGED <<exit, conv>>
    /\ UNCHANGED <<run, archive, fs, lookup_map, log, outputs, scanVars, commaVars, tsVars>>

\* line 312 when the expect of line 197 has panicked: the run ends
ConversionPanics ==
    /\ pc = "traverse" /\ exit = "running"
    /\ parse_out = Panic
    /\ exit' = "panic"
    /\ conv' = [conv EXCEPT ![run] = "panic"]
    /\ UNCHANGED <<run, pc, archive, fs, lookup_map, log, outputs, scanVars, commaVars, tsVars, travVars>>

\* lines 312-318: parse_ttc_lua has returned; the folder of the
\* timestamp's date is made, or the unwrap of line 316 panics
MakeFolder ==
    /\ pc = "traverse" /\ exit = "running"
    /\ parse_out.st = "ok"
    /\ conv' = [conv EXCEPT ![run] = "ok"]
    /\ LET ts == timestamp_of(parse_out.val.timestamp)
       IN  \E some \in from_timestamp_is_some(ts) :
               IF some
               THEN /\ fs' = fs \cup {PathOf(folder_of(ts), "")}
                    /\ pc' = StepAfter(pc)
                    /\ UNCHANGED exit
               ELSE /\ exit' = "panic"
                    /\ UNCHANGED <<fs, pc>>
    /\ UNCHANGED <<run, archive, lookup_map, log, outputs, scanVars, commaVars, tsVars, travVars>>

\* lines 321, 322, 325, 326: one file is created and written
WriteFile ==
    /\ pc \in WriteSteps /\ exit = "running"
    /\ outputs' = [outputs EXCEPT ![run] =
                      @ \cup {OutputAt(pc, run, folder_of(timestamp_of(parse_out.val.timestamp)))}]
    /\ pc' = StepAfter(pc)
    /\ UNCHANGED <<run, exit, archive, fs, lookup_map, log, conv, scanVars, commaVars, tsVars, travVars>>

\* lines 330-333 and 337-339: the archive and the price file are removed;
\* EU follows NA, main returns after EU
Cleanup ==
    /\ pc = "cleanup" /\ exit = "running"
    /\ fs' = fs \ {zip_file(run), lua_output(run)}
    /\ IF run < Len(Regions)
       THEN run' = run + 1 /\ pc' = StepAfter(pc) /\ UNCHANGED exit
       ELSE exit' = "ok" /\ UNCHANGED <<run, pc>>
    /\ UNCHANGED <<archive, lookup_map, log, conv, outputs, scanVars, commaVars, tsVars, travVars>>

\* the ? of lines 297-331: a file operation fails and main returns the
\* error; a write that fails may have created its file
IoError ==
    /\ pc \in IoSteps /\ exit = "running"
    /\ exit' = "err"
    /\ \/ UNCHANGED outputs
       \/ /\ pc \in WriteSteps
          /\ outputs' = [outputs EXCEPT ![run] =
                            @ \cup {OutputAt(pc, run, folder_of(timestamp_of(parse_out.val.timestamp)))}]
    /\ UNCHANGED <<run, pc, archive, fs, lookup_map, log, conv, scanVars, commaVars, tsVars, travVars>>

ProcInit ==
    /\ run = 1 /\ pc = "download" /\ exit = "running"
    /\ archive = [lua |-> Absent, lookup |-> Absent]
    /\ fs = {} /\ lookup_map = {} /\ log = {}
    /\ conv = [r \in 1..2 |-> "none"]
    /\ outputs = [r \in 1..2 |-> {}]
    /\ ScanIdle /\ CommaIdle /\ TsIdle /\ TravIdle

ProcNext ==
    \/ Download \/ ExtractLua \/ ExtractLookup \/ ParseTtcLua
    \/ TravCall \/ TravPush \/ TravLeaf \/ TravRecurse \/ TravSkip \/ TravPop
    \/ TravReturn \/ ParseReturn
    \/ ConversionPanics \/ MakeFolder \/ WriteFile \/ Cleanup \/ IoError

SpecProc == ProcInit /\ [][ProcNext]_vars

-----------------------------------------------------------------------------
(* What process_server owes                                                *)

\* C7: in one region's run no price CSV and no lookup CSV is written
\* before parse_ttc_lua has returned from the full traversal, and a run
\* whose conversion panics has written none of its output files.
C7_NoOutputBeforeParse ==
    \A r \in 1..Len(Regions) :
        /\ outputs[r] # {} => conv[r] = "ok"
        /\ conv[r] = "panic" => outputs[r] = {}
        /\ (r = run /\ outputs[r] # {}) =>
               /\ parse_out.st = "ok" /\ trav_pc = "done"
               /\ tree = archive.lua.content.data
        /\ r > run => outputs[r] = {}

\* reached: NA has written its four files, and EU's conversion panics on
\* an invalid leaf after a record was collected, with nothing written
C7_Witness ==
    /\ run = 2 /\ exit = "panic" /\ conv[2] = "panic"
    /\ results # <<>>
    /\ Cardinality(outputs[1]) = 4
    /\ outputs[2] = {}

WhiteBetween(s, i, j) == \A k \in (i + 1)..(j - 1) : is_whitespace(At(s, k))

\* the text holds self.ItemLookUpTable = { ... } end
HasLookupAssignment(s) ==
    \E i \in 0..(Len(s) - 1) : At(s, i) = "L" /\
      \E a \in (i + 1)..(Len(s) - 1) : At(s, a) = "=" /\ WhiteBetween(s, i, a) /\
        \E b \in (a + 1)..(Len(s) - 1) : At(s, b) = "{" /\ WhiteBetween(s, a, b) /\
          \E c \in (b + 1)..(Len(s) - 1) : At(s, c) = "}" /\
            \E d \in (c + 1)..(Len(s) - 1) : At(s, d) = "end" /\ WhiteBetween(s, c, d)

\* the run is past line 310 with a lookup file that lacks the assignment
PastAbsentTable ==
    /\ pc \notin {"download", "extract_lua", "extract_lookup"}
    /\ archive.lookup # Absent
    /\ ~HasLookupAssignment(archive.lookup.content)

\* the lookup step alone has not ended the run
NotFatal ==
    /\ pc = "extract_lookup" => exit \in {"running", "err"}
    /\ (pc = "parse" /\ exit = "panic") => conv[run] = "panic"

\* C8: a lookup text without the self.ItemLookUpTable assignment gives an
\* empty map, the run prints a warning, and it goes on to the price table
\* without a fatal error.
C8_AbsentTableWarns ==
    /\ PastAbsentTable => lookup_map = {} /\ Warning(run) \in log
    /\ NotFatal

\* what holds of it: the map is empty and the run goes on
AbsentTableIsNotFatal ==
    /\ PastAbsentTable => lookup_map = {}
    /\ NotFatal

\* the warning is printed exactly for a file missing from the archive
WarningIffFileMissing ==
    pc \notin {"download", "extract_lua", "extract_lookup"} =>
        (Warning(run) \in log <=> archive.lookup = Absent)

====
